---- MODULE Spec2Model ----
(***************************************************************************)
(* Model of instagram_downloader.py: InstagramDownloader.download, i.e.    *)
(* URL validation, the fetcher (urllib path and requests/SOCKS path) and   *)
(* the ordered extraction chain (_sharedData, __additionalDataLoaded,      *)
(* ld+json, og: meta tags).                                                *)
(*                                                                         *)
(* JSON values are tagged records [t, v]; a Python expression evaluates to *)
(* a result [exc, val] where exc is "none" or the exception class raised.  *)
(***************************************************************************)
EXTENDS Integers, Sequences, FiniteSets, TLC

VARIABLES
    proxy,          \* self.proxy: "none", "http" or "socks"
    use_requests,   \* self._use_requests
    opener,         \* self._opener is not None
    url,            \* argument of download(): a sequence of URL tokens
    pc,             \* position inside download()
    html,           \* the page text returned by _fetch_html
    media,          \* local variable media of download() / _parse_json()
    outcome,        \* what download() returned or raised
    netCalls,       \* number of HTTP requests issued
    net,            \* what the network did to the request
    tried,          \* extraction strategies attempted so far, in order
    yields          \* what each attempted strategy returned, in order

vars == <<proxy, use_requests, opener, url, pc, html, media, outcome,
          netCalls, net, tried, yields>>

----------------------------------------------------------------------------
(* Bounds and program constants *)

MaxIdLen == 2

----------------------------------------------------------------------------
(* JSON / Python values *)

Absent == [t |-> "absent", v |-> "-"]
Null == [t |-> "null", v |-> "-"]
Str(s) == [t |-> "str", v |-> s]
Num(n) == [t |-> "num", v |-> n]
Bool(b) == [t |-> "bool", v |-> b]
List(q) == [t |-> "list", v |-> q]
Obj(r) == [t |-> "obj", v |-> r]

IsObj(x) == x.t = "obj"
IsList(x) == x.t = "list"
IsStr(x) == x.t = "str"

HasKey(x, k) == IsObj(x) /\ k \in DOMAIN x.v /\ x.v[k].t # "absent"

\* len(d) for a dict: number of keys present
ObjLen(x) == Cardinality({k \in DOMAIN x.v : x.v[k].t # "absent"})

\* Python truth value of a value (bool(x))
Truthy(x) ==
    CASE x.t = "null" -> FALSE
      [] x.t = "absent" -> FALSE
      [] x.t = "bool" -> x.v
      [] x.t = "num" -> x.v # 0
      [] x.t = "str" -> x.v # ""
      [] x.t = "list" -> Len(x.v) > 0
      [] x.t = "obj" -> ObjLen(x) > 0

\* a == b on values
PyEq(a, b) == a.t = b.t /\ a.v = b.v

\* a or b
PyOr(a, b) == IF Truthy(a) THEN a ELSE b

Ok(x) == [exc |-> "none", val |-> x]
Raise(e) == [exc |-> e, val |-> Null]

\* x[key] with a string key
GetItemKey(x, key) ==
    CASE x.t = "obj" -> IF HasKey(x, key) THEN Ok(x.v[key]) ELSE Raise("KeyError")
      [] OTHER -> Raise("TypeError")

\* x[0]; the strings subscripted here are one character long, so s[0] = s
GetItem0(x) ==
    CASE x.t = "list" -> IF Len(x.v) > 0 THEN Ok(x.v[1]) ELSE Raise("IndexError")
      [] x.t = "str" -> IF x.v # "" THEN Ok(x) ELSE Raise("IndexError")
      [] x.t = "obj" -> Raise("KeyError")
      [] OTHER -> Raise("TypeError")

\* x.get(key, default): only dict has the method
DictGet(x, key, default) ==
    IF IsObj(x)
    THEN Ok(IF HasKey(x, key) THEN x.v[key] ELSE default)
    ELSE Raise("AttributeError")

\* r then [key], then [0]: subscripting the result of a subexpression
ThenKey(r, key) == IF r.exc # "none" THEN r ELSE GetItemKey(r.val, key)
Then0(r) == IF r.exc # "none" THEN r ELSE GetItem0(r.val)

\* try: r  except classes: return None
Except(r, classes) == IF r.exc \in classes THEN Ok(Null) ELSE r

\* json.loads on the text captured by a regular expression
json_loads(text) == IF text.wf THEN Ok(text.val) ELSE Raise("JSONDecodeError")

\* html.unescape on the attribute values used here
unescape(s) ==
    CASE s = "i&amp;j" -> "i&j"
      [] s = "&#1;" -> ""
      [] OTHER -> s

----------------------------------------------------------------------------
(* Extractor *)

EmptyDict == Obj([k |-> Absent])

\* r.get(key, default) on the result of a subexpression
ThenGet(r, key, default) ==
    IF r.exc # "none" THEN r ELSE DictGet(r.val, key, default)

\* the media dict built by the strategies; a key never assigned is Absent
MediaDict(type, u, thumbnail, source) ==
    Obj([type |-> Str(type), url |-> u, thumbnail |-> thumbnail,
         source |-> Str(source)])

\* the final check on media.get('url') left out
ReturnAlways(type, u, thumbnail, source) ==
    Ok(MediaDict(type, u, thumbnail, source))

\* if media.get('url'): media['source'] = ...; return media / return None
ReturnIfUrl(type, u, thumbnail, source) ==
    IF Truthy(u) THEN Ok(MediaDict(type, u, thumbnail, source)) ELSE Ok(Null)

\* the is_video flag ignored: only __typename decides
_media_from_graphql_node_TypenameOnly(node) ==
    IF ~Truthy(node) THEN Ok(Null)
    ELSE IF ~IsObj(node) THEN Raise("AttributeError")
    ELSE LET typename == DictGet(node, "__typename", Str("")).val
             video_url == DictGet(node, "video_url", Str("")).val
             thumb == PyOr(DictGet(node, "display_url", Null).val,
                           DictGet(node, "thumbnail_src", Str("")).val)
         IN  IF PyEq(typename, Str("GraphVideo"))
             THEN IF ~Truthy(video_url) THEN Ok(Null)
                  ELSE ReturnIfUrl("video", video_url, thumb, "json")
             ELSE IF ~Truthy(thumb) THEN Ok(Null)
                  ELSE ReturnIfUrl("image", thumb, Absent, "json")

_media_from_graphql_node(node) ==
    IF ~Truthy(node) THEN Ok(Null)
    ELSE IF ~IsObj(node) THEN Raise("AttributeError")
    ELSE LET typename == DictGet(node, "__typename", Str("")).val
             is_video == DictGet(node, "is_video", Null).val
             video_url == DictGet(node, "video_url", Str("")).val
             thumb == PyOr(DictGet(node, "display_url", Null).val,
                           DictGet(node, "thumbnail_src", Str("")).val)
         IN  IF PyEq(typename, Str("GraphVideo")) \/ Truthy(is_video)
             THEN IF ~Truthy(video_url) THEN Ok(Null)
                  ELSE ReturnIfUrl("video", video_url, thumb, "json")
             ELSE IF ~Truthy(thumb) THEN Ok(Null)
                  ELSE ReturnIfUrl("image", thumb, Absent, "json")

_extract_from_shared_data(data) ==
    LET post == ThenKey(ThenKey(Then0(ThenKey(GetItemKey(data, "entry_data"),
                        "PostPage")), "graphql"), "shortcode_media")
        r == IF post.exc # "none" THEN post
             ELSE _media_from_graphql_node(post.val)
    IN  Except(r, {"KeyError", "IndexError", "TypeError"})

\* json.JSONDecodeError missing from the except clause
_try_shared_data_NoDecodeCatch(page) ==
    IF ~page.shared.m THEN Ok(Null)
    ELSE LET data == json_loads(page.shared)
             r == IF data.exc # "none" THEN data
                  ELSE _extract_from_shared_data(data.val)
         IN  Except(r, {"KeyError", "TypeError"})

_try_shared_data(page) ==
    IF ~page.shared.m THEN Ok(Null)
    ELSE LET data == json_loads(page.shared)
             r == IF data.exc # "none" THEN data
                  ELSE _extract_from_shared_data(data.val)
         IN  Except(r, {"JSONDecodeError", "KeyError", "TypeError"})

_try_additional_data(page) ==
    IF ~page.additional.m THEN Ok(Null)
    ELSE LET data == json_loads(page.additional)
             node == ThenGet(ThenGet(data, "graphql", EmptyDict),
                             "shortcode_media", EmptyDict)
             r == IF node.exc # "none" THEN node
                  ELSE IF Truthy(node.val)
                       THEN _media_from_graphql_node(node.val)
                       ELSE Ok(Null)
         IN  Except(r, {"JSONDecodeError", "KeyError", "TypeError"})

\* the body of the try block of _try_ld_json once data is the block to read
LdJsonBlock(data) ==
    LET video_url == DictGet(data, "video", List(<<EmptyDict>>))
    IN  IF video_url.exc # "none" THEN video_url
        ELSE IF IsList(video_url.val) /\ Truthy(video_url.val)
        THEN LET u == ThenGet(GetItem0(video_url.val), "contentUrl", Str(""))
                 thumbnail == DictGet(data, "thumbnailUrl", Str("")).val
             IN  IF u.exc # "none" THEN u
                 ELSE ReturnIfUrl("video", u.val, thumbnail, "json")
        ELSE LET image == DictGet(data, "image", Null).val
             IN  IF ~Truthy(image) THEN Ok(Null)
                 ELSE LET u == IF IsStr(image) THEN Ok(image)
                               ELSE GetItem0(image)
                      IN  IF u.exc # "none" THEN u
                          ELSE ReturnIfUrl("image", u.val, Absent, "json")

_try_ld_json(page) ==
    IF ~page.ld.m THEN Ok(Null)
    ELSE LET loaded == json_loads(page.ld)
             data == IF loaded.exc = "none" /\ IsList(loaded.val)
                     THEN GetItem0(loaded.val) ELSE loaded
             r == IF data.exc # "none" THEN data ELSE LdJsonBlock(data.val)
         IN  Except(r, {"JSONDecodeError", "KeyError", "TypeError",
                        "IndexError"})

_parse_og_meta(page) ==
    IF page.ogVideo.m
    THEN ReturnIfUrl("video", Str(unescape(page.ogVideo.content)),
                     IF page.ogImage.m
                     THEN Str(unescape(page.ogImage.content)) ELSE Absent,
                     "og_meta")
    ELSE IF page.ogImage.m
    THEN ReturnIfUrl("image", Str(unescape(page.ogImage.content)), Absent,
                     "og_meta")
    ELSE Ok(Null)

----------------------------------------------------------------------------
(* URL validation.  A URL is a sequence of tokens, each standing for the   *)
(* literal substring it names.                                             *)

\* tokens made only of characters of [a-zA-Z0-9_-]
IdToks == {"A", "_", "9", "p", "reel", "tv", "stories", "http", "s", "ftp"}

At(u, i) == IF i <= Len(u) THEN u[i] ELSE "<end>"

\* the pattern with [a-zA-Z0-9_-]* in place of [a-zA-Z0-9_-]+
_is_valid_url_EmptyId(u) ==
    LET i1 == IF At(u, 2) = "s" THEN 3 ELSE 2
        i2 == IF At(u, i1 + 1) = "www." THEN i1 + 2 ELSE i1 + 1
    IN  /\ At(u, 1) = "http"
        /\ At(u, i1) = "://"
        /\ At(u, i2) = "instagram.com"
        /\ At(u, i2 + 1) = "/"
        /\ At(u, i2 + 2) \in {"p", "reel", "tv"}
        /\ At(u, i2 + 3) = "/"

\* re.match(r'^https?://(www\.)?instagram\.com/(p|reel|tv)/[a-zA-Z0-9_-]+/?', url)
_is_valid_url(u) ==
    LET i1 == IF At(u, 2) = "s" THEN 3 ELSE 2        \* after https?
        i2 == IF At(u, i1 + 1) = "www." THEN i1 + 2 ELSE i1 + 1
    IN  /\ At(u, 1) = "http"
        /\ At(u, i1) = "://"
        /\ At(u, i2) = "instagram.com"
        /\ At(u, i2 + 1) = "/"
        /\ At(u, i2 + 2) \in {"p", "reel", "tv"}
        /\ At(u, i2 + 3) = "/"
        /\ At(u, i2 + 4) \in IdToks

----------------------------------------------------------------------------
(* Fetcher *)

\* sections of a page: what each regular expression of the extractor finds
NoMatch == [m |-> FALSE, wf |-> FALSE, val |-> Null]
Malformed == [m |-> TRUE, wf |-> FALSE, val |-> Null]
Text(x) == [m |-> TRUE, wf |-> TRUE, val |-> x]
NoTag == [m |-> FALSE, content |-> ""]
Tag(c) == [m |-> TRUE, content |-> c]

Page(sh, ad, ld, ov, oi) ==
    [shared |-> sh, additional |-> ad, ld |-> ld, ogVideo |-> ov, ogImage |-> oi]

NoPage == Page(NoMatch, NoMatch, NoMatch, NoTag, NoTag)

StatusCodes == {200, 204, 304, 400, 403, 404, 429, 500}

Is2xx(code) == 200 <= code /\ code < 300

\* _build_opener(proxy), with the requests library installed:
\* <<self._use_requests, self._opener is not None>>
_build_opener(p) ==
    IF p = "none" THEN <<FALSE, FALSE>>
    ELSE IF p = "socks" THEN <<TRUE, FALSE>>
    ELSE <<FALSE, TRUE>>

FetchOk(page) == [exc |-> "none", msg |-> "none", code |-> 0, page |-> page]
FetchFail(exc, msg, code) == [exc |-> exc, msg |-> msg, code |-> code, page |-> NoPage]

\* the message raised by _raise_for_status(code), "none" when it returns
_raise_for_status(code) ==
    IF code = 404 THEN "not_found"
    ELSE IF code = 403 THEN "access_denied"
    ELSE IF code = 429 THEN "rate_limited"
    ELSE IF code # 200 THEN "http_error"
    ELSE "none"

\* What the network does to one GET: a response with a status code, a
\* refused/unreachable connection, or a timeout while connecting or while
\* reading the response.
NoEvent == [kind |-> "none", code |-> 0]

NetEvents ==
    [kind : {"response"}, code : StatusCodes]
    \cup [kind : {"conn_fail", "connect_timeout", "read_timeout"}, code : {0}]

\* The exception classes of what urllib raises for the event (empty: no
\* exception): non-2xx is HTTPError (a URLError); errors while connecting
\* and sending are wrapped in URLError; a timeout while reading is the raw
\* socket.timeout.
UrllibRaises(ev) ==
    CASE ev.kind = "response" ->
             IF Is2xx(ev.code) THEN {} ELSE {"HTTPError", "URLError"}
      [] ev.kind = "conn_fail" -> {"URLError"}
      [] ev.kind = "connect_timeout" -> {"URLError"}
      [] ev.kind = "read_timeout" -> {"socket.timeout"}

\* The exception classes of what requests.get raises for the event:
\* ConnectTimeout derives from both ConnectionError and Timeout.
RequestsRaises(ev) ==
    CASE ev.kind = "response" -> {}
      [] ev.kind = "conn_fail" -> {"ConnectionError"}
      [] ev.kind = "connect_timeout" -> {"ConnectTimeout", "ConnectionError", "Timeout"}
      [] ev.kind = "read_timeout" -> {"ReadTimeout", "Timeout"}

_fetch_with_urllib(ev, page) ==
    LET raised == UrllibRaises(ev)
    IN  IF raised = {} THEN FetchOk(page)
        ELSE IF "HTTPError" \in raised
        THEN IF _raise_for_status(ev.code) # "none"
             THEN FetchFail("Exception", _raise_for_status(ev.code), ev.code)
             ELSE \* falls off the end: html is None and re.search(…, None)
                  \* in _try_shared_data raises TypeError out of download
                  FetchFail("TypeError", "html_is_None", ev.code)
        ELSE IF "URLError" \in raised
        THEN FetchFail("Exception", "network_error", 0)
        ELSE FetchFail("socket.timeout", "timed out", 0)

_fetch_with_requests(ev, page) ==
    LET raised == RequestsRaises(ev)
    IN  IF raised = {}
        THEN IF _raise_for_status(ev.code) # "none"
             THEN FetchFail("Exception", _raise_for_status(ev.code), ev.code)
             ELSE FetchOk(page)
        ELSE IF "ConnectionError" \in raised
        THEN FetchFail("Exception", "network_error", 0)
        ELSE IF "Timeout" \in raised
        THEN FetchFail("Exception", "timeout", 0)
        ELSE FetchFail("unknown", "unknown", 0)

_fetch_html(ev, page) ==
    IF proxy # "none" /\ use_requests
    THEN _fetch_with_requests(ev, page)
    ELSE _fetch_with_urllib(ev, page)

----------------------------------------------------------------------------
(* Inputs *)

\* shortcode_media nodes
Node(tn, iv, vu, du, ts) ==
    Obj([__typename |-> tn, is_video |-> iv, video_url |-> vu,
         display_url |-> du, thumbnail_src |-> ts])

DictNodes ==
    { Node(k[1], k[2], vu, th[1], th[2]) :
        k \in {<<Absent, Absent>>, <<Str("GraphVideo"), Absent>>,
               <<Str("GraphImage"), Bool(TRUE)>>,
               <<Str("GraphImage"), Bool(FALSE)>>},
        vu \in {Absent, Str(""), Str("v.mp4")},
        th \in {<<Absent, Absent>>, <<Str(""), Str("t.jpg")>>,
                <<Str("d.jpg"), Str("t.jpg")>>, <<Str("d.jpg"), Absent>>,
                <<Absent, Str("t.jpg")>>} }

OddNodes == {Null, Str("x"), Num(5), Num(0), List(<<Num(1)>>), List(<<>>)}

VideoNode == Node(Absent, Bool(TRUE), Str("v.mp4"), Str("d.jpg"), Absent)
ImageNode == Node(Str("GraphImage"), Absent, Absent, Str("d.jpg"), Absent)

\* window._sharedData = {...}
SharedDoc(node) ==
    Obj([entry_data |-> Obj([PostPage |-> List(<<
        Obj([graphql |-> Obj([shortcode_media |-> node])]) >>)])])

BrokenSharedDocs ==
    { Obj([entry_data |-> Absent]),
      Obj([entry_data |-> Str("x")]),
      Obj([entry_data |-> Obj([PostPage |-> Absent])]),
      Obj([entry_data |-> Obj([PostPage |-> List(<<>>)])]),
      Obj([entry_data |-> Obj([PostPage |-> Str("x")])]),
      Obj([entry_data |-> Obj([PostPage |-> Obj([graphql |-> Null])])]),
      Obj([entry_data |-> Obj([PostPage |-> List(<<Num(5)>>)])]),
      Obj([entry_data |-> Obj([PostPage |-> List(<<Obj([graphql |-> Absent])>>)])]),
      Obj([entry_data |-> Obj([PostPage |-> List(<<Obj([graphql |-> List(<<>>)])>>)])]),
      Obj([entry_data |-> Obj([PostPage |-> List(<<
          Obj([graphql |-> Obj([shortcode_media |-> Absent])]) >>)])]) }

SharedSections ==
    {NoMatch, Malformed} \cup { Text(d) : d \in BrokenSharedDocs }
    \cup { Text(SharedDoc(n)) : n \in DictNodes \cup OddNodes }

\* __additionalDataLoaded('...', {...})
AdditionalDoc(node) == Obj([graphql |-> Obj([shortcode_media |-> node])])

AdditionalSections ==
    {NoMatch, Malformed}
    \cup { Text(d) : d \in { Obj([graphql |-> Absent]),
                             Obj([graphql |-> List(<<Num(1)>>)]),
                             Obj([graphql |-> Obj([shortcode_media |-> Absent])]) } }
    \cup { Text(AdditionalDoc(n)) :
             n \in {VideoNode, ImageNode, Str("x"), List(<<>>),
                    Node(Absent, Bool(TRUE), Str(""), Str("d.jpg"), Absent),
                    Node(Absent, Bool(TRUE), Str("v.mp4"), Absent, Absent)} }

\* <script type="application/ld+json">...</script>
LdDoc(video, image, thumbnailUrl) ==
    Obj([video |-> video, image |-> image, thumbnailUrl |-> thumbnailUrl])

VideoObject(contentUrl) == Obj([contentUrl |-> contentUrl])

LdBlocks ==
    { LdDoc(Absent, Absent, Absent),
      LdDoc(Absent, Str("i.jpg"), Absent),
      LdDoc(Absent, List(<<Str("i.jpg"), Str("j.jpg")>>), Absent),
      LdDoc(List(<<>>), Str("i.jpg"), Absent),
      LdDoc(List(<<>>), List(<<Str("i.jpg")>>), Str("t.jpg")),
      LdDoc(List(<<>>), List(<<>>), Absent),
      LdDoc(List(<<>>), Str(""), Absent),
      LdDoc(List(<<>>), Num(5), Absent),
      LdDoc(List(<<>>), Obj([url |-> Str("i.jpg")]), Absent),
      LdDoc(Str("v.mp4"), Str("i.jpg"), Absent),
      LdDoc(Null, List(<<Str("i.jpg")>>), Absent),
      LdDoc(List(<<VideoObject(Str("v.mp4"))>>), Str("i.jpg"), Str("t.jpg")),
      LdDoc(List(<<VideoObject(Str("v.mp4"))>>), Absent, Absent),
      LdDoc(List(<<VideoObject(Str(""))>>), Str("i.jpg"), Str("t.jpg")),
      LdDoc(List(<<VideoObject(Absent)>>), Str("i.jpg"), Absent),
      LdDoc(List(<<Str("v.mp4")>>), Str("i.jpg"), Absent) }

LdSections ==
    {NoMatch, Malformed}
    \cup { Text(b) : b \in LdBlocks }
    \cup { Text(List(<<b>>)) : b \in LdBlocks }
    \cup { Text(x) : x \in {Str("x"), Num(5), Null, List(<<>>), List(<<Num(1)>>)} }

\* <meta property="og:video" content="...">, <meta property="og:image" ...>
OgVideoTags == {NoTag, Tag(""), Tag("v.mp4")}
OgImageTags == {NoTag, Tag(""), Tag("i&amp;j"), Tag("&#1;")}

\* a page section of each later kind that yields a result
ImageAdditional == Text(AdditionalDoc(ImageNode))
ImageLd == Text(LdDoc(List(<<>>), Str("i.jpg"), Absent))

\* The pages served: each family varies one section over all of its cases
\* and the other sections over a few.
Pages ==
    { Page(sh, o[1], o[2], o[3], o[4]) :
        sh \in SharedSections,
        o \in {<<NoMatch, NoMatch, NoTag, NoTag>>,
               <<NoMatch, NoMatch, Tag("v.mp4"), Tag("i&amp;j")>>,
               <<ImageAdditional, ImageLd, Tag("v.mp4"), Tag("i&amp;j")>>} }
    \cup
    { Page(sh, ad, o[1], NoTag, o[2]) :
        sh \in {NoMatch, Malformed, Text(SharedDoc(List(<<>>)))},
        ad \in AdditionalSections,
        o \in {<<NoMatch, NoTag>>, <<ImageLd, Tag("i&amp;j")>>} }
    \cup
    { Page(s[1], s[2], ld, og[1], og[2]) :
        s \in {<<NoMatch, NoMatch>>, <<Malformed, Malformed>>},
        ld \in LdSections,
        og \in {<<NoTag, NoTag>>, <<Tag("v.mp4"), NoTag>>} }
    \cup
    { Page(sh, NoMatch, ld, ov, oi) :
        sh \in {NoMatch, Malformed},
        ld \in {NoMatch, Malformed},
        ov \in OgVideoTags, oi \in OgImageTags }

\* identifiers of up to MaxIdLen tokens over a letter and a character
\* outside the identifier class
RECURSIVE IdSeqs(_)
IdSeqs(n) ==
    IF n = 0 THEN {<<>>}
    ELSE IdSeqs(n - 1)
         \cup { Append(q, c) : q \in {r \in IdSeqs(n - 1) : Len(r) = n - 1},
                               c \in {"A", "%"} }

Url(scheme, www, host, seg, id, tail) ==
    scheme \o <<"://">> \o www \o <<host, "/", seg, "/">> \o id \o tail

\* https://www.instagram.com/p/A/ with one part varied at a time
Urls ==
    { Url(sc, <<"www.">>, "instagram.com", "p", <<"A">>, <<"/">>) :
        sc \in {<<"http">>, <<"http", "s">>, <<"ftp">>, <<"HTTP", "s">>, <<>>} }
    \cup { Url(<<"http", "s">>, w, "instagram.com", "p", <<"A">>, <<"/">>) :
        w \in {<<>>, <<"m.">>} }
    \cup { Url(<<"http", "s">>, <<"www.">>, h, "p", <<"A">>, <<"/">>) :
        h \in {"example.com", "instagram.com.evil.org"} }
    \cup { Url(<<"http", "s">>, <<"www.">>, "instagram.com", sg, <<"A">>, <<"/">>) :
        sg \in {"reel", "tv", "stories", "P"} }
    \cup { Url(<<"http", "s">>, <<"www.">>, "instagram.com", "p", id, <<>>) :
        id \in IdSeqs(MaxIdLen) }
    \cup { Url(<<"http", "s">>, <<"www.">>, "instagram.com", "p", <<"A">>, tl) :
        tl \in {<<"/", "?", "x">>, <<"#">>} }
    \cup { Url(<<"http", "s">>, <<"www.">>, "instagram.com", "reel",
                <<"_", "9">>, <<>>),
            <<>>, <<"http">>, <<"http", "s", "://", "www.", "instagram.com">> }

----------------------------------------------------------------------------
(* download(url) on a constructed InstagramDownloader *)

Pending == [kind |-> "pending", exc |-> "none", msg |-> "none", code |-> 0,
            val |-> Null]
Raised(exc, msg, code) ==
    [kind |-> "raise", exc |-> exc, msg |-> msg, code |-> code, val |-> Null]
Returned(m) ==
    [kind |-> "return", exc |-> "none", msg |-> "none", code |-> 0, val |-> m]

Init ==
    /\ proxy \in {"none", "http", "socks"}
    /\ use_requests = _build_opener(proxy)[1]
    /\ opener = _build_opener(proxy)[2]
    /\ url \in Urls
    /\ pc = "validate"
    /\ html = NoPage
    /\ media = Null
    /\ outcome = Pending
    /\ netCalls = 0
    /\ net = NoEvent
    /\ tried = <<>>
    /\ yields = <<>>

\* if not self._is_valid_url(url): raise ValueError(...)
Validate ==
    /\ pc = "validate"
    /\ IF _is_valid_url(url)
       THEN pc' = "fetch" /\ outcome' = outcome
       ELSE pc' = "done" /\ outcome' = Raised("ValueError", "invalid_url", 0)
    /\ UNCHANGED <<proxy, use_requests, opener, url, html, media, netCalls,
                   net, tried, yields>>

\* html = self._fetch_html(url)
Fetch ==
    /\ pc = "fetch"
    /\ \E ev \in NetEvents, page \in Pages :
         LET r == _fetch_html(ev, page)
         IN  /\ netCalls' = netCalls + 1
             /\ net' = ev
             /\ IF r.exc = "none"
                THEN pc' = "shared" /\ html' = r.page /\ outcome' = outcome
                ELSE pc' = "done" /\ html' = html
                     /\ outcome' = Raised(r.exc, r.msg, r.code)
    /\ UNCHANGED <<proxy, use_requests, opener, url, media, tried, yields>>

\* the chain without its early returns: every strategy runs and the last
\* one decides
Attempt_NoEarlyReturn(name, r, next) ==
    /\ tried' = Append(tried, name)
    /\ yields' = Append(yields, r)
    /\ IF r.exc # "none"
       THEN pc' = "done" /\ media' = media
            /\ outcome' = Raised(r.exc, "uncaught", 0)
       ELSE /\ media' = r.val
            /\ pc' = next
            /\ outcome' = outcome
    /\ UNCHANGED <<proxy, use_requests, opener, url, html, netCalls, net>>

\* one strategy of the chain returned r: a result ends the chain, None
\* moves on to the next strategy, an exception leaves download()
Attempt(name, r, next) ==
    /\ tried' = Append(tried, name)
    /\ yields' = Append(yields, r)
    /\ IF r.exc # "none"
       THEN pc' = "done" /\ media' = media
            /\ outcome' = Raised(r.exc, "uncaught", 0)
       ELSE /\ media' = r.val
            /\ pc' = IF Truthy(r.val) THEN "return" ELSE next
            /\ outcome' = outcome
    /\ UNCHANGED <<proxy, use_requests, opener, url, html, netCalls, net>>

\* _parse_json: Pattern A
TrySharedData ==
    /\ pc = "shared"
    /\ Attempt("shared_data", _try_shared_data(html), "additional")

\* _parse_json: Pattern B
TryAdditionalData ==
    /\ pc = "additional"
    /\ Attempt("additional_data", _try_additional_data(html), "ld")

\* _parse_json: Pattern C
TryLdJson ==
    /\ pc = "ld"
    /\ Attempt("ld_json", _try_ld_json(html), "og")

\* if not media: media = self._parse_og_meta(html)
ParseOgMeta ==
    /\ pc = "og"
    /\ Attempt("og_meta", _parse_og_meta(html), "return")

\* if not media: raise Exception(...)  /  return media
Return ==
    /\ pc = "return"
    /\ pc' = "done"
    /\ outcome' = IF Truthy(media) THEN Returned(media)
                  ELSE Raised("Exception", "extraction_failed", 0)
    /\ UNCHANGED <<proxy, use_requests, opener, url, html, media, netCalls,
                   net, tried, yields>>

Next ==
    \/ Validate
    \/ Fetch
    \/ TrySharedData
    \/ TryAdditionalData
    \/ TryLdJson
    \/ ParseOgMeta
    \/ Return

Spec == Init /\ [][Next]_vars

----------------------------------------------------------------------------
(* Properties *)

Fetched == Len(tried) > 0
Finished == pc = "done"

\* The language of the URL pattern, stated on the shape of the URL: some
\* scheme, some optional www., a path segment and one identifier token make
\* up a prefix of the URL.
Prefix(u, q) == Len(q) <= Len(u) /\ SubSeq(u, 1, Len(q)) = q

MatchesPattern(u) ==
    \E sc \in {<<"http">>, <<"http", "s">>}, w \in {<<>>, <<"www.">>},
       sg \in {"p", "reel", "tv"}, c \in IdToks :
        Prefix(u, sc \o <<"://">> \o w \o <<"instagram.com", "/", sg, "/", c>>)

\* C1: a download call whose URL does not match the scheme/host/path
\* pattern is rejected by validation, ends in ValueError and never issues a
\* network request.
C1_InvalidUrlNeverFetches ==
    ~MatchesPattern(url) =>
        /\ ~_is_valid_url(url)
        /\ netCalls = 0
        /\ pc \in {"validate", "done"}
        /\ Finished => outcome = Raised("ValueError", "invalid_url", 0)

C1_Witness ==
    /\ Finished
    /\ ~MatchesPattern(url)
    /\ Len(url) > 6
    /\ outcome.exc = "ValueError"

Order == <<"shared_data", "additional_data", "ld_json", "og_meta">>

StrategyOn(i, page) ==
    CASE i = 1 -> _try_shared_data(page)
      [] i = 2 -> _try_additional_data(page)
      [] i = 3 -> _try_ld_json(page)
      [] i = 4 -> _parse_og_meta(page)

Yielded(r) == r.exc = "none" /\ Truthy(r.val)
NoResult(r) == r.exc = "none" /\ ~Truthy(r.val)

\* C2: the strategies are attempted in the order shared data, additional
\* data, ld+json, og meta; a strategy is attempted only if every earlier
\* one yielded no result (so og meta only after strategies 1-3 yielded
\* none); and what download returns is the result of the first strategy,
\* in that order, that yields a result on the fetched page.
C2_FixedOrderFirstResult ==
    /\ Len(tried) <= 4
    /\ \A i \in 1..Len(tried) :
          /\ tried[i] = Order[i]
          /\ yields[i] = StrategyOn(i, html)
          /\ \A j \in 1..(i - 1) : NoResult(StrategyOn(j, html))
    /\ outcome.kind = "return" =>
          \E i \in 1..4 :
              /\ Yielded(StrategyOn(i, html))
              /\ \A j \in 1..(i - 1) : NoResult(StrategyOn(j, html))
              /\ outcome.val = StrategyOn(i, html).val

C2_Witness ==
    /\ outcome.kind = "return"
    /\ tried = <<"shared_data", "additional_data">>
    /\ Yielded(StrategyOn(3, html))
    /\ Yielded(StrategyOn(4, html))

\* C3: no parse or navigation error of strategies 1-3 leaves the extractor:
\* download never ends in an exception raised inside a strategy.
C3_NoStrategyErrorPropagates ==
    Finished => outcome.msg # "uncaught"

\* the shortcode_media node of a well-formed global-state blob
WellFormedShared(page) ==
    /\ page.shared.m
    /\ page.shared.wf
    /\ HasKey(page.shared.val, "entry_data")
    /\ HasKey(page.shared.val.v.entry_data, "PostPage")
    /\ IsList(page.shared.val.v.entry_data.v.PostPage)
    /\ Len(page.shared.val.v.entry_data.v.PostPage.v) > 0
    /\ HasKey(page.shared.val.v.entry_data.v.PostPage.v[1], "graphql")
    /\ HasKey(page.shared.val.v.entry_data.v.PostPage.v[1].v.graphql,
              "shortcode_media")

SharedNode(page) ==
    page.shared.val.v.entry_data.v.PostPage.v[1].v.graphql.v.shortcode_media

NonEmptyStr(n, key) == HasKey(n, key) /\ IsStr(n.v[key]) /\ n.v[key].v # ""

IsVideoNode(n) ==
    /\ IsObj(n)
    /\ \/ HasKey(n, "__typename") /\ PyEq(n.v["__typename"], Str("GraphVideo"))
       \/ HasKey(n, "is_video") /\ PyEq(n.v["is_video"], Bool(TRUE))
    /\ NonEmptyStr(n, "video_url")

\* C4: when the fetched page has a well-formed global-state blob whose node
\* is a video node with a non-empty video URL, download returns a video
\* result with that URL and source "json", whose thumbnail is the display
\* URL or, when there is none, the thumbnail source; whatever the other
\* sections of the page hold.
C4_SharedVideoResult ==
    (Finished /\ Fetched /\ WellFormedShared(html)
              /\ IsVideoNode(SharedNode(html))) =>
        LET n == SharedNode(html)
            r == outcome.val
        IN  /\ outcome.kind = "return"
            /\ r.v.type = Str("video")
            /\ r.v.url = n.v["video_url"]
            /\ r.v.source = Str("json")
            /\ NonEmptyStr(n, "display_url") =>
                   r.v.thumbnail = n.v["display_url"]
            /\ (~NonEmptyStr(n, "display_url") /\ HasKey(n, "thumbnail_src")) =>
                   r.v.thumbnail = n.v["thumbnail_src"]

C4_Witness ==
    /\ Finished /\ Fetched /\ WellFormedShared(html)
    /\ IsVideoNode(SharedNode(html))
    /\ ~NonEmptyStr(SharedNode(html), "display_url")
    /\ HasKey(SharedNode(html), "thumbnail_src")
    /\ PyEq(SharedNode(html).v["__typename"], Str("GraphImage"))
    /\ Yielded(StrategyOn(2, html))
    /\ Yielded(StrategyOn(4, html))
    /\ outcome.kind = "return"

\* C5: every result a strategy yields, and every result download returns,
\* has a url that is present and non-empty.
C5_UrlNonEmpty ==
    /\ \A i \in 1..Len(yields) :
          Yielded(yields[i]) =>
              yields[i].val.v.url.t # "absent" /\ Truthy(yields[i].val.v.url)
    /\ outcome.kind = "return" =>
          outcome.val.v.url.t # "absent" /\ Truthy(outcome.val.v.url)

\* an og:image-only page whose content unescapes to the empty string
C5_Witness ==
    /\ Finished /\ Fetched
    /\ tried = Order
    /\ html.ogImage.m /\ html.ogImage.content # ""
    /\ ~html.ogVideo.m
    /\ outcome.msg = "extraction_failed"

\* C6: a returned result carries a thumbnail only if it is a video and the
\* page provided a non-empty thumbnail value for it.
C6_ThumbnailOnlyWhenDiscoverable ==
    (outcome.kind = "return" /\ outcome.val.v.thumbnail.t # "absent") =>
        /\ outcome.val.v.type = Str("video")
        /\ Truthy(outcome.val.v.thumbnail)

\* _fetch_html returned the page text to download()
FetchReturned == pc \in {"shared", "additional", "ld", "og", "return"} \/ Fetched

StatusError(msg) ==
    msg \in {"not_found", "access_denied", "rate_limited", "http_error"}

\* C7: on both transports, 404 / 403 / 429 / any other non-2xx status end
\* in the not-found / access-denied / rate-limited / generic HTTP error
\* carrying the code, and a 2xx response makes the fetch return the page.
C7_StatusMapping ==
    (netCalls > 0 /\ net.kind = "response") =>
        IF Is2xx(net.code)
        THEN ~StatusError(outcome.msg) /\ FetchReturned
        ELSE /\ Finished /\ outcome.kind = "raise" /\ outcome.code = net.code
             /\ outcome.msg = CASE net.code = 404 -> "not_found"
                                [] net.code = 403 -> "access_denied"
                                [] net.code = 429 -> "rate_limited"
                                [] OTHER -> "http_error"

\* C8: a request that times out, while connecting or while reading, on
\* either transport, ends in a timeout error and not in the generic
\* network error.
C8_TimeoutDistinct ==
    (netCalls > 0 /\ net.kind \in {"connect_timeout", "read_timeout"}) =>
        /\ Finished /\ outcome.kind = "raise"
        /\ outcome.msg \in {"timeout", "timed out"}

YieldsOg(page) ==
    \/ page.ogVideo.m /\ unescape(page.ogVideo.content) # ""
    \/ ~page.ogVideo.m /\ page.ogImage.m /\ unescape(page.ogImage.content) # ""

\* C9: a fetched page with a malformed global-state blob, no other JSON
\* section and valid Open Graph tags makes download return the og_meta
\* result; it does not raise.
C9_MalformedBlobFallsBackToOg ==
    (Finished /\ Fetched /\ html.shared = Malformed
              /\ ~html.additional.m /\ ~html.ld.m /\ YieldsOg(html)) =>
        /\ outcome.kind = "return"
        /\ outcome.val.v.source = Str("og_meta")
        /\ outcome.val = _parse_og_meta(html).val

C9_Witness ==
    /\ Finished /\ Fetched /\ html.shared = Malformed
    /\ ~html.additional.m /\ ~html.ld.m /\ YieldsOg(html)
    /\ outcome.kind = "return"

\* the ld+json block read by strategy 3: the object, or the first element
\* of the list
LdIsBlock(page) ==
    /\ page.ld.m /\ page.ld.wf
    /\ \/ IsObj(page.ld.val)
       \/ IsList(page.ld.val) /\ Len(page.ld.val.v) > 0
          /\ IsObj(page.ld.val.v[1])

LdBlock(page) ==
    IF IsObj(page.ld.val) THEN page.ld.val ELSE page.ld.val.v[1]

NonEmptyList(x) == IsList(x) /\ Len(x.v) > 0

\* C10: when strategy 3 reads a block whose video field is absent or an
\* empty list and whose image field is a non-empty string or a non-empty
\* list, it yields an image result with that string, or the first element
\* of the list, as url and source "json".
C10_LdImageWhenNoVideo ==
    (Len(tried) >= 3 /\ LdIsBlock(html)
       /\ (~HasKey(LdBlock(html), "video")
           \/ PyEq(LdBlock(html).v.video, List(<<>>)))
       /\ HasKey(LdBlock(html), "image")
       /\ (NonEmptyStr(LdBlock(html), "image")
           \/ NonEmptyList(LdBlock(html).v.image))) =>
        LET image == LdBlock(html).v.image
        IN  /\ Yielded(yields[3])
            /\ yields[3].val.v.type = Str("image")
            /\ yields[3].val.v.url = IF IsStr(image) THEN image ELSE image.v[1]
            /\ yields[3].val.v.source = Str("json")

====
